---- MODULE Spec2Model ----
(***************************************************************************)
(* A model of pebl2/result.py: LearnerResult (a bounded, score-ordered,    *)
(* duplicate-free collection of scored networks with run statistics) and   *)
(* the module-level merge function.                                        *)
(*                                                                         *)
(* LearnerResult and LearnerRunStats instances are heap objects: the       *)
(* variable results maps object ids to LearnerResult instances and runobjs *)
(* maps object ids to LearnerRunStats instances, so that two references to *)
(* one object are two occurrences of one id.                               *)
(***************************************************************************)
EXTENDS Integers, Sequences, FiniteSets, TLC

(***************************************************************************)
(* Bounds of the model.                                                    *)
(***************************************************************************)
\* number of distinct network structures (edge sets) a learner may offer
NumStructs == 3
\* scores are drawn from 1..MaxScore
MaxScore == 3
\* largest value of the constructor's size argument
MaxSize == 2
\* total number of add_network calls in a behaviour
MaxOffers == 3
\* total number of add_network calls in a behaviour that also records runs
\* and merges
MaxOffersMerged == 2
\* number of time.time() readings in a behaviour
MaxClock == 4
\* number of time.time() readings in a behaviour that also adds networks and
\* merges
MaxClockMerged == 2
\* total number of add_network calls in a behaviour that also saves and loads
MaxOffersSaved == 1
\* number of file names tofile is called with in a behaviour
MaxSaves == 1
\* number of fromfile calls in a behaviour, which ends with the last of them
MaxLoads == 1
\* largest number of results handed to one merge call
MaxMergeArgs == 2
\* the configured result.size when it is left at its default (1000 in the
\* source, scaled down so that a collection can be filled)
DefaultResultSize == 2

EdgeSets == 1..NumStructs
Scores == 1..MaxScore
SizeArgs == 0..MaxSize

VARIABLES
    cfgSize,    \* config.get('result.size')
    results,    \* heap: id -> LearnerResult instance
    runobjs,    \* heap: id -> LearnerRunStats instance
    clock,      \* the last reading of time.time()
    offers,     \* history: id -> the (edges, score) pairs passed to add_network
    last,       \* history: the last call, its arguments, the state before it, its error
    ret,        \* history: what the last merge call returned
    files       \* the file system: name -> content, and (history) what tofile was given

vars == <<cfgSize, results, runobjs, clock, offers, last, ret, files>>

(***************************************************************************)
(* pebl2.network.Network, as far as result.py uses it.                     *)
(***************************************************************************)
\* Network(nodes, edges, score=score)
Network(nodes, edges, score) == [nodes |-> nodes, edges |-> edges, score |-> score]

\* hash(net): a fingerprint of the edge set alone
HashEdges(edges) == 100 + edges

Hash(net) == HashEdges(net.edges)

\* net1 == net2: equality by structure
NetEq(x, y) == Hash(x) = Hash(y)

\* net1 < net2: by score, ties broken by structural identity
NetLess(x, y) ==
    \/ x.score < y.score
    \/ x.score = y.score /\ Hash(x) < Hash(y)

(***************************************************************************)
(* Library functions result.py calls.                                      *)
(***************************************************************************)
\* bisect.bisect_right(a, x, lo, hi), with Python's 0-based indices
RECURSIVE BisectRight(_, _, _, _)
BisectRight(a, x, lo, hi) ==
    IF lo < hi
    THEN LET mid == (lo + hi) \div 2
         IN  IF NetLess(x, a[mid + 1])
             THEN BisectRight(a, x, lo, mid)
             ELSE BisectRight(a, x, mid + 1, hi)
    ELSE lo

\* list.insert(i, x), i 0-based
ListInsert(a, i, x) == SubSeq(a, 1, i) \o <<x>> \o SubSeq(a, i + 1, Len(a))

\* Insort with the candidate appended instead of placed
InsortAppend(a, x) == Append(a, x)

\* bisect.insort(a, x)
Insort(a, x) == ListInsert(a, BisectRight(a, x, 0, Len(a)), x)

\* ListRemove dropping the last element, the best-scored one
ListRemoveLast(a, x) == SubSeq(a, 1, Len(a) - 1)

\* list.remove(x): drops the first element equal to x
ListRemove(a, x) ==
    LET hits == {i \in 1..Len(a) : NetEq(a[i], x)}
        first == CHOOSE i \in hits : \A j \in hits : i <= j
    IN  IF hits = {} THEN a
        ELSE SubSeq(a, 1, first - 1) \o SubSeq(a, first + 1, Len(a))

(***************************************************************************)
(* LearnerResult                                                           *)
(***************************************************************************)
\* the dict nethashes: its int keys and its Network keys
EmptyDict == [hashes |-> {}, nets |-> {}]

\* LearnerResult.__init__(learner_, size): learner is "None" or a learner
\* whose data holds the variables
NewResult(learner, size, cfg) ==
    [ sizeArg   |-> size,
      data      |-> IF learner # "None" THEN "data" ELSE "None",
      nodes     |-> IF learner # "None" THEN "variables" ELSE "None",
      size      |-> IF size # 0 THEN size ELSE cfg,
      networks  |-> <<>>,
      nethashes |-> EmptyDict,
      runs      |-> <<>> ]

\* what the history variable last records of a call: the call, its
\* arguments, its exception, and the heap before it
Call(op, r, edges, score, args, err) ==
    [op |-> op, r |-> r, edges |-> edges, score |-> score, args |-> args, err |-> err,
     pre |-> results, preobjs |-> runobjs, out |-> <<>>]

NoCall == [op |-> "init", r |-> 0, edges |-> 0, score |-> 0, args |-> <<>>, err |-> "none",
           pre |-> <<>>, preobjs |-> <<>>, out |-> <<>>]

NoRet == [kind |-> "none", ref |-> 0, args |-> <<>>]

TotalOffers ==
    LET RECURSIVE Sum(_)
        Sum(S) == IF S = {} THEN 0
                  ELSE LET x == CHOOSE x \in S : TRUE
                       IN Len(offers[x]) + Sum(S \ {x})
    IN Sum(DOMAIN offers)

\* the names of the files: the default of config's result.filename, and
\* another one
FileNames == {"result.pebl", "other.pebl"}

\* a file that does not exist
NoFile == [written |-> FALSE, bytes |-> <<>>, expect |-> <<>>]

\* the state after constructing n collections
InitWith(n) ==
    /\ files = [f \in FileNames |-> NoFile]
    /\ cfgSize \in {0, DefaultResultSize}
    /\ results \in [1..n -> {NewResult(l, s, cfgSize) : l \in {"None", "learner"}, s \in SizeArgs}]
    /\ runobjs = <<>>
    /\ clock = 0
    /\ offers = [r \in 1..n |-> <<>>]
    /\ last = NoCall
    /\ ret = NoRet

\* DictHas with the duplicate check lost
DictHasNever(d, k) == FALSE

\* nethash in nethashes, for the int key add_network looks up
DictHas(d, k) == k \in d.hashes

\* nethashes[nethash] = 1
DictSet(d, k) == [d EXCEPT !.hashes = @ \cup {k}]

\* DictPop leaving the evicted fingerprint in the index
DictPopNothing(d, k) == d

\* nethashes.pop(k), for a key that is present
DictPop(d, k) == [d EXCEPT !.hashes = @ \ {k}]

\* HasRoom with <= for <
HasRoomOffByOne(self) == self.size = 0 \/ Len(self.networks) <= self.size

\* self.size == 0 or len(nets) < self.size
HasRoom(self) == self.size = 0 \/ Len(self.networks) < self.size

\* ScoreBeats with >= for >
ScoreBeatsOrTies(score, nets) == score >= nets[1].score

\* ScoreBeats comparing with the best stored score, nets[-1]
ScoreBeatsBest(score, nets) == score > nets[Len(nets)].score

\* score > nets[0].score
ScoreBeats(score, nets) == score > nets[1].score

\* LearnerResult.add_network(net, score): the instance after the call; edges
\* is the edge set of net
AddNetworkResult(self, edges, score) ==
    LET nets == self.networks
        nethashes == self.nethashes
        nethash == HashEdges(edges)
        snet == Network(self.nodes, edges, score)
    IN  IF HasRoom(self)
        THEN IF ~DictHas(nethashes, nethash)
             THEN [self EXCEPT !.networks = Insort(nets, snet),
                               !.nethashes = DictSet(nethashes, nethash)]
             ELSE self
        ELSE IF ScoreBeats(score, nets) /\ ~DictHas(nethashes, nethash)
             THEN IF ~DictHas(nethashes, Hash(nets[1]))
                  THEN self
                  ELSE [self EXCEPT
                           !.networks = Insort(ListRemove(nets, nets[1]), snet),
                           !.nethashes = DictSet(DictPop(nethashes, Hash(nets[1])), nethash)]
             ELSE self

\* the exception add_network raises: nethashes.pop of a key that is missing
AddNetworkError(self, edges, score) ==
    IF /\ ~HasRoom(self)
       /\ ScoreBeats(score, self.networks)
       /\ ~DictHas(self.nethashes, HashEdges(edges))
       /\ ~DictHas(self.nethashes, Hash(self.networks[1]))
    THEN "KeyError" ELSE "none"

AddNetwork(r, edges, score) ==
    /\ TotalOffers < MaxOffers
    /\ results' = [results EXCEPT ![r] = AddNetworkResult(results[r], edges, score)]
    /\ offers' = [offers EXCEPT ![r] = Append(@, <<edges, score>>)]
    /\ last' = Call("add_network", r, edges, score, <<>>,
                    AddNetworkError(results[r], edges, score))
    /\ UNCHANGED <<files, cfgSize, runobjs, clock, ret>>

\* Reversed leaving the order as it is stored
ReversedNot(s) == s

\* list(reversed(s))
Reversed(s) == [i \in 1..Len(s) |-> s[Len(s) + 1 - i]]

\* LearnerResult.posterior on the object r: out is the sequence of networks
\* handed to posterior.from_sorted_scored_networks
Posterior(r) ==
    /\ last' = [Call("posterior", r, 0, 0, <<>>, "none") EXCEPT
                    !.out = Reversed(results[r].networks)]
    /\ UNCHANGED <<files, cfgSize, results, runobjs, clock, offers, ret>>

(***************************************************************************)
(* Run statistics                                                          *)
(***************************************************************************)
\* LearnerRunStats(start)
NewRunStats(start) == [start |-> start, end |-> <<>>, host |-> "hostname"]

\* LearnerResult.start_run() on the object r
StartRun(r) ==
    /\ clock < MaxClock
    /\ clock' = clock + 1
    /\ runobjs' = Append(runobjs, NewRunStats(clock'))
    /\ results' = [results EXCEPT ![r].runs = Append(@, Len(runobjs'))]
    /\ last' = Call("start_run", r, 0, 0, <<>>, "none")
    /\ UNCHANGED <<files, cfgSize, offers, ret>>

\* LearnerResult.stop_run() on the object r: time.time() is read, then
\* self.runs[-1] raises IndexError on an empty list
StopRun(r) ==
    LET runs == results[r].runs
    IN  /\ clock < MaxClock
        /\ clock' = clock + 1
        /\ IF runs = <<>>
           THEN /\ runobjs' = runobjs
                /\ last' = Call("stop_run", r, 0, 0, <<>>, "IndexError")
           ELSE /\ runobjs' = [runobjs EXCEPT ![runs[Len(runs)]].end = <<clock'>>]
                /\ last' = Call("stop_run", r, 0, 0, <<>>, "none")
        /\ UNCHANGED <<files, cfgSize, results, offers, ret>>

\* list(S) followed by sort()
RECURSIVE SortedList(_)
SortedList(S) ==
    IF S = {} THEN <<>>
    ELSE LET m == CHOOSE x \in S : \A y \in S \ {x} : ~NetLess(y, x)
         IN  <<m>> \o SortedList(S \ {m})

(***************************************************************************)
(* tofile and fromfile: the pickle stream is a sequence of tokens, an int,  *)
(* a string or None each                                                   *)
(***************************************************************************)
PInt(i) == [kind |-> "I", i |-> i, s |-> ""]

PStr(s) == [kind |-> "S", i |-> 0, s |-> s]

PNone == [kind |-> "N", i |-> 0, s |-> ""]

\* the concatenation of the sequences f[1], ..., f[n]
RECURSIVE Concat(_, _)
Concat(f, n) == IF n = 0 THEN <<>> ELSE Concat(f, n - 1) \o f[n]

\* the ints of the set S in ascending order
RECURSIVE IntList(_)
IntList(S) ==
    IF S = {} THEN <<>>
    ELSE LET m == CHOOSE x \in S : \A y \in S : x <= y
         IN  <<m>> \o IntList(S \ {m})

DumpNetwork(net) == <<PStr(net.nodes), PInt(net.edges), PInt(net.score)>>

DumpNetworks(nets) ==
    <<PInt(Len(nets))>> \o Concat([i \in 1..Len(nets) |-> DumpNetwork(nets[i])], Len(nets))

DumpRun(run) ==
    <<PInt(run.start), IF run.end = <<>> THEN PNone ELSE PInt(run.end[1]), PStr(run.host)>>

DumpDict(d) ==
    LET keys == IntList(d.hashes)
    IN  <<PInt(Len(keys))>> \o [i \in 1..Len(keys) |-> PInt(keys[i])]
            \o DumpNetworks(SortedList(d.nets))

\* cPickle.dump(self, fp): the attributes of the instance, and the objects
\* they refer to
Dump(self, objs) ==
    <<PStr(self.data), PStr(self.nodes), PInt(self.size)>>
        \o DumpNetworks(self.networks)
        \o DumpDict(self.nethashes)
        \o <<PInt(Len(self.runs))>>
        \o Concat([i \in 1..Len(self.runs) |-> DumpRun(objs[self.runs[i]])], Len(self.runs))

\* the networks read from the stream b at offset p (the tokens before them),
\* and the offset after them
LoadNetworks(b, p) ==
    LET n == b[p + 1].i
    IN  [nets |-> [k \in 1..n |-> Network(b[p + 3 * k - 1].s, b[p + 3 * k].i,
                                          b[p + 3 * k + 1].i)],
         next |-> p + 1 + 3 * n]

LoadDict(b, p) ==
    LET n == b[p + 1].i
        nets == LoadNetworks(b, p + 1 + n)
    IN  [dict |-> [hashes |-> {b[p + 1 + k].i : k \in 1..n},
                   nets   |-> {nets.nets[k] : k \in 1..Len(nets.nets)}],
         next |-> nets.next]

LoadRuns(b, p) ==
    LET n == b[p + 1].i
    IN  [k \in 1..n |->
            [start |-> b[p + 3 * k - 1].i,
             end   |-> IF b[p + 3 * k].kind = "N" THEN <<>> ELSE <<b[p + 3 * k].i>>,
             host  |-> b[p + 3 * k + 1].s]]

\* cPickle.load(fp): the instance, its runs being the objects at the ids
\* after base, and those objects
Load(b, base) ==
    LET nets == LoadNetworks(b, 3)
        dict == LoadDict(b, nets.next)
        runs == LoadRuns(b, dict.next)
    IN  [self |-> [sizeArg   |-> b[3].i,
                   data      |-> b[1].s,
                   nodes     |-> b[2].s,
                   size      |-> b[3].i,
                   networks  |-> nets.nets,
                   nethashes |-> dict.dict,
                   runs      |-> [k \in 1..Len(runs) |-> base + k]],
         objs |-> runs]

\* ToFileName always taking the configured name
ToFileNameConfigured(filename) == "result.pebl"

\* filename or config.get('result.filename')
ToFileName(filename) == IF filename # "None" THEN filename ELSE "result.pebl"

\* LearnerResult.tofile(filename) on the object r. files[f].expect records
\* what the caller of tofile wrote under the name f
ToFile(r, filename) ==
    LET target == ToFileName(filename)
        asked == IF filename # "None" THEN filename ELSE "result.pebl"
        view == [networks  |-> results[r].networks,
                 nethashes |-> results[r].nethashes,
                 runs      |-> [i \in 1..Len(results[r].runs) |-> runobjs[results[r].runs[i]]]]
    IN  /\ Cardinality({f \in FileNames : files[f].expect # <<>>}) < MaxSaves
        /\ files' = [f \in FileNames |->
                        [written |-> files[f].written \/ f = target,
                         bytes   |-> IF f = target THEN Dump(results[r], runobjs)
                                     ELSE files[f].bytes,
                         expect  |-> IF f = asked THEN <<view>> ELSE files[f].expect]]
        /\ last' = Call("tofile", r, 0, 0, <<filename>>, "none")
        /\ UNCHANGED <<cfgSize, results, runobjs, clock, offers, ret>>

\* fromfile(filename): open raises IOError when the file does not exist
FromFile(filename) ==
    /\ Len(results) <= MaxLoads
    /\ IF ~files[filename].written
       THEN /\ last' = Call("fromfile", 0, 0, 0, <<filename>>, "IOError")
            /\ UNCHANGED <<results, runobjs, offers>>
       ELSE LET loaded == Load(files[filename].bytes, Len(runobjs))
            IN  /\ results' = Append(results, loaded.self)
                /\ runobjs' = runobjs \o loaded.objs
                /\ offers' = Append(offers, <<>>)
                /\ last' = Call("fromfile", Len(results'), 0, 0, <<filename>>, "none")
    /\ UNCHANGED <<files, cfgSize, clock, ret>>

(***************************************************************************)
(* merge                                                                   *)
(***************************************************************************)
\* callable(x), for the values the attribute nodes takes: None, or the
\* variables of the learner's data
IsCallable(x) == x \notin {"None", "variables"}

\* every r.networks of the inputs, in input order
RECURSIVE AllNetworks(_, _)
AllNetworks(res, args) ==
    IF args = <<>> THEN <<>>
    ELSE res[Head(args)].networks \o AllNetworks(res, Tail(args))

\* every r.runs of the inputs, in input order: flatten([r.runs for r in results])
RECURSIVE AllRuns(_, _)
AllRuns(res, args) ==
    IF args = <<>> THEN <<>>
    ELSE res[Head(args)].runs \o AllRuns(res, Tail(args))

\* set(nets): of the networks equal to one another, the first one stays
SetOf(nets) ==
    {nets[i] : i \in {i \in 1..Len(nets) : \A j \in 1..(i - 1) : ~NetEq(nets[j], nets[i])}}

\* the LearnerResult merge builds from two or more inputs; called is what
\* results[0].nodes() returned
MergedResult(res, args, cfg, called) ==
    LET allnets == SortedList(SetOf(AllNetworks(res, args)))
    IN  [NewResult("None", 0, cfg) EXCEPT
            !.data = res[args[1]].data,
            !.nodes = called,
            !.networks = allnets,
            !.nethashes = [hashes |-> {}, nets |-> {allnets[i] : i \in 1..Len(allnets)}],
            !.runs = AllRuns(res, args)]

\* merge(*args), args being the ids of the results after flatten(args)
Merge(args) ==
    /\ last' = Call("merge", 0, 0, 0, args,
                    IF Len(args) # 1 /\ ~IsCallable(results[args[1]].nodes)
                    THEN "TypeError" ELSE "none")
    /\ IF Len(args) = 1
       THEN /\ ret' = [kind |-> "ok", ref |-> args[1], args |-> args]
            /\ UNCHANGED <<results, offers>>
       ELSE IF ~IsCallable(results[args[1]].nodes)
       THEN /\ ret' = [kind |-> "raised", ref |-> 0, args |-> args]
            /\ UNCHANGED <<results, offers>>
       ELSE LET new == Len(results) + 1
            IN  /\ results' = Append(results,
                                  MergedResult(results, args, cfgSize, "called"))
                /\ offers' = Append(offers, <<>>)
                /\ ret' = [kind |-> "ok", ref |-> new, args |-> args]
    /\ UNCHANGED <<files, cfgSize, runobjs, clock>>

MergeArgs ==
    UNION {[1..n -> DOMAIN results] : n \in 1..MaxMergeArgs}

InitAdd == InitWith(1)

NextAdd == \E r \in DOMAIN results, e \in EdgeSets, s \in Scores : AddNetwork(r, e, s)

SpecAdd == InitAdd /\ [][NextAdd]_vars

\* two collections built with the same arguments, as the results of parallel
\* runs of one learning task are
Init == InitWith(2) /\ results[1] = results[2]

Next ==
    \/ /\ TotalOffers < MaxOffersMerged
       /\ \E r \in DOMAIN results, e \in EdgeSets, s \in Scores : AddNetwork(r, e, s)
    \/ /\ clock < MaxClockMerged
       /\ \E r \in DOMAIN results : StartRun(r)
    \/ /\ clock < MaxClockMerged
       /\ \E r \in DOMAIN results : StopRun(r)
    \/ \E args \in MergeArgs : Merge(args)

Spec == Init /\ [][Next]_vars

\* one collection, filled, run and handed to the posterior
NextView ==
    \/ \E r \in DOMAIN results, e \in EdgeSets, s \in Scores : AddNetwork(r, e, s)
    \/ /\ clock < MaxClockMerged
       /\ \E r \in DOMAIN results : StartRun(r)
    \/ /\ clock < MaxClockMerged
       /\ \E r \in DOMAIN results : StopRun(r)
    \/ \E r \in DOMAIN results : Posterior(r)

SpecView == InitAdd /\ [][NextView]_vars

\* one collection, filled, run, saved and loaded
NextFile ==
    /\ Len(results) <= MaxLoads
    /\ \/ /\ TotalOffers < MaxOffersSaved
          /\ \E r \in DOMAIN results, e \in EdgeSets, s \in Scores : AddNetwork(r, e, s)
       \/ /\ clock < MaxClockMerged
          /\ \E r \in DOMAIN results : StartRun(r)
       \/ /\ clock < MaxClockMerged
          /\ \E r \in DOMAIN results : StopRun(r)
       \/ \E r \in DOMAIN results, f \in {"None"} \cup FileNames : ToFile(r, f)
       \/ \E f \in FileNames : FromFile(f)

SpecFile == InitAdd /\ [][NextFile]_vars

\* one collection and its run records
NextRuns ==
    \/ \E r \in DOMAIN results : StartRun(r)
    \/ \E r \in DOMAIN results : StopRun(r)

SpecRuns == InitAdd /\ [][NextRuns]_vars

(***************************************************************************)
(* Vocabulary of the properties.                                           *)
(***************************************************************************)
\* the last call was add_network
LastAdd == last.op = "add_network"

\* the instance the last call acted on, as it is now and as it was before
LastNow == results[last.r]

LastPre == last.pre[last.r]

\* the fingerprint of the structure is a key of the instance's index
InIndex(self, edges) == HashEdges(edges) \in self.nethashes.hashes

\* the instance is full: a positive capacity, reached
AtCapacity(self) == self.size > 0 /\ Len(self.networks) = self.size

\* the last add_network took the eviction branch
LastEvicted ==
    /\ LastAdd
    /\ AtCapacity(LastPre)
    /\ ~InIndex(LastPre, last.edges)
    /\ last.score > LastPre.networks[1].score

\* the candidate the last add_network built
LastCandidate == Network(LastPre.nodes, last.edges, last.score)

\* the elements of the sequence s
Range(s) == {s[i] : i \in 1..Len(s)}

ScoresOf(nets) == [i \in 1..Len(nets) |-> nets[i].score]

OfferedScores(r) == [i \in 1..Len(offers[r]) |-> offers[r][i][2]]

\* the structures offered to r so far are pairwise distinct
DistinctOffers(r) ==
    \A i, j \in 1..Len(offers[r]) : i # j => offers[r][i][1] # offers[r][j][1]

\* the sequence s of numbers in ascending order
RECURSIVE SortAsc(_)
SortAsc(s) ==
    IF s = <<>> THEN <<>>
    ELSE LET m == CHOOSE i \in 1..Len(s) : \A j \in 1..Len(s) : s[i] <= s[j]
         IN  <<s[m]>> \o SortAsc(SubSeq(s, 1, m - 1) \o SubSeq(s, m + 1, Len(s)))

\* the k highest numbers of s (all of them when there are fewer), ascending
TopK(s, k) ==
    LET a == SortAsc(s)
    IN  IF Len(a) <= k THEN a ELSE SubSeq(a, Len(a) - k + 1, Len(a))

(***************************************************************************)
(* Properties of add_network                                               *)
(***************************************************************************)
\* C1: a collection whose capacity is K > 0 never stores more than K
\* networks, after any sequence of add_network calls.
C1_Capacity ==
    \A r \in DOMAIN results :
        results[r].size > 0 => Len(results[r].networks) <= results[r].size

\* an add_network call arrived at a full collection and was accepted
C1_Witness == LastEvicted /\ Len(LastNow.networks) = LastNow.size

\* C2: add_network with a structure whose fingerprint is already in the index
\* leaves the stored networks and the index as they were, whatever the score.
C2_Dedup ==
    (LastAdd /\ InIndex(LastPre, last.edges))
        => /\ LastNow.networks = LastPre.networks
           /\ LastNow.nethashes = LastPre.nethashes

\* a full collection was offered a structure it holds, with a score above the
\* stored one and above the minimum
C2_Witness ==
    /\ LastAdd
    /\ AtCapacity(LastPre)
    /\ InIndex(LastPre, last.edges)
    /\ last.score > LastPre.networks[1].score
    /\ \E i \in 1..Len(LastPre.networks) :
          /\ LastPre.networks[i].edges = last.edges
          /\ LastPre.networks[i].score < last.score
    /\ LastNow = LastPre

\* C3: at capacity, a new structure scoring above the minimum replaces the
\* former minimum: same size, items[0] and its fingerprint gone, the
\* candidate and its fingerprint present.
C3_Eviction ==
    LastEvicted
        => /\ Len(LastNow.networks) = Len(LastPre.networks)
           /\ LastPre.networks[1] \notin Range(LastNow.networks)
           /\ ~InIndex(LastNow, LastPre.networks[1].edges)
           /\ LastCandidate \in Range(LastNow.networks)
           /\ InIndex(LastNow, last.edges)

\* an eviction from a collection of two or more, so that a member survives
C3_Witness == LastEvicted /\ Len(LastPre.networks) >= 2

\* C4: with capacity K > 0 and pairwise distinct structures offered, the
\* stored scores are the K highest scores offered, as a multiset.
C4_TopK ==
    \A r \in DOMAIN results :
        (results[r].size > 0 /\ DistinctOffers(r))
            => SortAsc(ScoresOf(results[r].networks))
                  = TopK(OfferedScores(r), results[r].size)

\* more distinct structures were offered than fit, and the last one evicted
\* the minimum
C4_Witness ==
    \E r \in DOMAIN results :
        /\ results[r].size > 0
        /\ DistinctOffers(r)
        /\ Len(offers[r]) > results[r].size
        /\ LastEvicted
        /\ last.r = r

\* C5: the keys of nethashes are exactly the fingerprints of the stored
\* networks, and no two stored networks share a fingerprint.
C5_IndexConsistent ==
    \A r \in DOMAIN results :
        LET nets == results[r].networks
        IN  /\ results[r].nethashes.hashes = {Hash(nets[i]) : i \in 1..Len(nets)}
            /\ results[r].nethashes.nets = {}
            /\ \A i, j \in 1..Len(nets) : i # j => Hash(nets[i]) # Hash(nets[j])

\* the index after an eviction
C5_Witness == LastEvicted /\ LastNow # LastPre /\ Len(LastNow.networks) >= 2

\* C6: the stored networks are in ascending order of score after every call.
C6_Sorted ==
    \A r \in DOMAIN results :
        LET nets == results[r].networks
        IN  \A i, j \in 1..Len(nets) : i < j => nets[i].score <= nets[j].score

\* an eviction followed by an insertion below the best stored network
C6_Witness ==
    /\ LastEvicted
    /\ Len(LastNow.networks) >= 2
    /\ LastNow.networks[1] = LastCandidate
    /\ LastNow.networks[2].score > last.score

\* C7: a collection constructed with size 0 is unbounded: it holds every
\* distinct structure offered to it.
C7_ZeroUnbounded ==
    \A r \in DOMAIN results :
        (results[r].sizeArg = 0 /\ DistinctOffers(r))
            => Len(results[r].networks) = Len(offers[r])

\* C8: at capacity, add_network with a score not above the minimum changes
\* nothing and raises nothing.
C8_Rejection ==
    (LastAdd /\ AtCapacity(LastPre) /\ last.score <= LastPre.networks[1].score)
        => /\ LastNow.networks = LastPre.networks
           /\ LastNow.nethashes = LastPre.nethashes
           /\ last.err = "none"

\* a new structure scoring exactly the minimum was offered to a full collection
C8_Witness ==
    /\ LastAdd
    /\ AtCapacity(LastPre)
    /\ last.score = LastPre.networks[1].score
    /\ ~InIndex(LastPre, last.edges)
    /\ LastNow = LastPre

(***************************************************************************)
(* Properties of merge                                                     *)
(***************************************************************************)
\* what a caller can observe of the instance a in the heap (res, objs): its
\* networks, its index and its run records
View(res, objs, a) ==
    [networks  |-> res[a].networks,
     nethashes |-> res[a].nethashes,
     runs      |-> [i \in 1..Len(res[a].runs) |-> objs[res[a].runs[i]]]]

\* the last call was made on the instance the last merge returned
LastOnReturned ==
    /\ ret.kind = "ok"
    /\ last.op \in {"add_network", "start_run", "stop_run"}
    /\ last.r = ret.ref

\* C9: merge returns a collection distinct from every input, for one input
\* too, and a call of add_network, start_run or stop_run on the returned
\* collection leaves every input's networks, index and run records unchanged.
C9_MergeNonDestructive ==
    ret.kind = "ok"
        => /\ \A i \in 1..Len(ret.args) : ret.ref # ret.args[i]
           /\ LastOnReturned
                 => \A i \in 1..Len(ret.args) :
                        View(results, runobjs, ret.args[i])
                            = View(last.pre, last.preobjs, ret.args[i])

\* the positions of the inputs that hold the structure edges
Occurs(args, edges) ==
    {i \in 1..Len(args) :
        \E k \in 1..Len(results[args[i]].networks) :
            results[args[i]].networks[k].edges = edges}

\* the score the instance self stores for the structure edges
StoredScores(self, edges) ==
    {self.networks[k].score :
        k \in {k \in 1..Len(self.networks) : self.networks[k].edges = edges}}

\* C10: when a structure is held by several inputs, merge returns a
\* collection that holds it once, with the score of the first input, in the
\* given order, that holds it.
C10_MergeFirstWins ==
    \A e \in EdgeSets :
        (last.op = "merge" /\ Cardinality(Occurs(last.args, e)) >= 2)
            => /\ ret.kind = "ok"
               /\ LET first == CHOOSE i \in Occurs(last.args, e) :
                                   \A j \in Occurs(last.args, e) : i <= j
                      held == {k \in 1..Len(results[ret.ref].networks) :
                                   results[ret.ref].networks[k].edges = e}
                  IN  /\ Cardinality(held) = 1
                      /\ StoredScores(results[ret.ref], e)
                            = StoredScores(results[last.args[first]], e)

\* the instances the last merge was given are pairwise distinct objects
\* whose networks share no fingerprint
DisjointInputs(args) ==
    \A i, j \in 1..Len(args) :
        i # j => /\ args[i] # args[j]
                 /\ \A e \in EdgeSets : ~(i \in Occurs(args, e) /\ j \in Occurs(args, e))

\* the last call was merge, of two or more inputs
LastMergeMany == last.op = "merge" /\ Len(last.args) >= 2

\* the networks of all the inputs of the last merge
InputNetworks == UNION {Range(results[last.args[i]].networks) : i \in 1..Len(last.args)}

\* the number of elements of all the sequences f[args[i]] together
RECURSIVE TotalLen(_, _)
TotalLen(f, args) ==
    IF args = <<>> THEN 0 ELSE Len(f[Head(args)]) + TotalLen(f, Tail(args))

\* C11: merge of inputs with pairwise disjoint fingerprints returns exactly
\* the union of their candidates, ascending by score and not capped: as many
\* as the inputs hold together. (A result that is the sorted union is the
\* same for merge([A,B]) and merge([B,A]).)
C11_MergeDisjointUnion ==
    (LastMergeMany /\ DisjointInputs(last.args))
        => /\ ret.kind = "ok"
           /\ LET nets == results[ret.ref].networks
              IN  /\ Range(nets) = InputNetworks
                  /\ Len(nets) = TotalLen([a \in DOMAIN results |-> results[a].networks],
                                          last.args)
                  /\ \A i, j \in 1..Len(nets) : i < j => nets[i].score <= nets[j].score

\* C12: merge([A, A]) returns a collection whose candidates are A's, none of
\* them twice.
C12_MergeIdempotent ==
    (LastMergeMany /\ \A i \in 1..Len(last.args) : last.args[i] = last.args[1])
        => /\ ret.kind = "ok"
           /\ LET nets == results[ret.ref].networks
              IN  /\ Range(nets) = Range(results[last.args[1]].networks)
                  /\ \A i, j \in 1..Len(nets) : i # j => nets[i].edges # nets[j].edges

\* the run records of the inputs of a merge, one after the other
RECURSIVE RunRecords(_)
RunRecords(args) ==
    IF args = <<>> THEN <<>>
    ELSE View(results, runobjs, Head(args)).runs \o RunRecords(Tail(args))

\* C13: merge of two or more inputs returns the inputs' run records
\* concatenated in input order, none dropped and none moved.
C13_MergeRunsConcatenated ==
    LastMergeMany
        => /\ ret.kind = "ok"
           /\ View(results, runobjs, ret.ref).runs = RunRecords(last.args)

(***************************************************************************)
(* Properties of the run records                                           *)
(***************************************************************************)
\* the positions of the runs of self that are open in the heap objs
OpenRuns(self, objs) == {i \in 1..Len(self.runs) : objs[self.runs[i]].end = <<>>}

LastStop == last.op = "stop_run"

\* C14: stop_run with no run open (none started, or all of them ended) fails
\* with an error and leaves the run records as they were.
C14_StopWithoutOpenRun ==
    (LastStop /\ OpenRuns(LastPre, last.preobjs) = {})
        => /\ last.err # "none"
           /\ runobjs = last.preobjs
           /\ LastNow.runs = LastPre.runs

\* C15: an end that has been set is never changed by a later call, and
\* stop_run sets the end of the most recently started run that is still open.
C15_EndSetOnce ==
    /\ \A i \in DOMAIN last.preobjs :
           last.preobjs[i].end # <<>> => runobjs[i].end = last.preobjs[i].end
    /\ (LastStop /\ OpenRuns(LastPre, last.preobjs) # {})
           => LET open == OpenRuns(LastPre, last.preobjs)
                  latest == CHOOSE i \in open : \A j \in open : j <= i
              IN  runobjs[LastPre.runs[latest]].end # <<>>

(***************************************************************************)
(* Further properties of merge                                             *)
(***************************************************************************)
\* C18: the collection merge returns for two or more inputs has an index
\* whose keys are the fingerprints of its networks, so that add_network on it
\* with a structure it holds changes nothing and an evicting add_network
\* raises nothing.
C18_MergeIndexConsistent ==
    (ret.kind # "none" /\ Len(ret.args) >= 2)
        => /\ ret.kind = "ok"
           /\ LET self == results[ret.ref]
              IN  /\ self.nethashes.hashes = {Hash(n) : n \in Range(self.networks)}
                  /\ self.nethashes.nets = {}
           /\ (LastOnReturned /\ LastAdd)
                 => /\ last.err = "none"
                    /\ (\E n \in Range(LastPre.networks) : n.edges = last.edges)
                           => LastNow = LastPre

\* C20: merge of two or more inputs built by the constructor raises nothing
\* and returns a collection whose nodes are the first input's nodes.
C20_MergeTakesNodes ==
    LastMergeMany
        => /\ last.err = "none"
           /\ ret.kind = "ok"
           /\ results[ret.ref].nodes = results[last.args[1]].nodes

(***************************************************************************)
(* Placement of a candidate among equal scores                             *)
(***************************************************************************)
\* the stored networks the last add_network inserted into: those before the
\* call, without items[0] when it was evicted
LastBase ==
    IF AtCapacity(LastPre) THEN Tail(LastPre.networks) ELSE LastPre.networks

\* the sequence s without its element at position p
Without(s, p) == SubSeq(s, 1, p - 1) \o SubSeq(s, p + 1, Len(s))

\* the last add_network inserted its candidate next to a stored member of
\* the same score
LastInsertedAtTie ==
    /\ LastAdd
    /\ LastNow.networks # LastPre.networks
    /\ \E n \in Range(LastBase) : n.score = last.score

\* the positions at which the candidate of the last add_network stands, the
\* other members being the former ones in their former order
LastPositions ==
    {p \in 1..Len(LastNow.networks) :
        /\ LastNow.networks[p] = LastCandidate
        /\ Without(LastNow.networks, p) = LastBase}

\* the leftmost position at which a network of the score fits into nets
Leftmost(nets, score) == 1 + Cardinality({i \in 1..Len(nets) : nets[i].score < score})

\* C19 as stated: a candidate inserted among members of equal score stands at
\* the leftmost position that keeps the sequence sorted, before them, and
\* they keep their relative order.
C19_LeftmostAmongTies ==
    LastInsertedAtTie => LastPositions = {Leftmost(LastBase, last.score)}

\* C19 as amended: a candidate inserted among members of equal score stands
\* at a position that keeps the sequence sorted by score, within the members
\* of its score but not necessarily before them, and they keep their
\* relative order.
C19_TiePlacement ==
    LastInsertedAtTie
        => \E p \in LastPositions :
              /\ \A j \in 1..(p - 1) : LastNow.networks[j].score <= last.score
              /\ \A j \in (p + 1)..Len(LastNow.networks) :
                     LastNow.networks[j].score >= last.score

\* a candidate inserted after a stored member of its score
C19_Witness ==
    /\ LastInsertedAtTie
    /\ \E p \in LastPositions : p > Leftmost(LastBase, last.score)

(***************************************************************************)
(* The ranked view                                                         *)
(***************************************************************************)
\* C17: the sequence handed to the posterior is the stored networks in
\* descending order of score, the exact reverse of the stored order, and
\* producing it changes neither the networks, nor the index, nor the runs.
C17_RankedView ==
    last.op = "posterior"
        => LET nets == LastNow.networks
               n == Len(nets)
           IN  /\ Len(last.out) = n
               /\ \A i \in 1..n : last.out[i] = nets[n + 1 - i]
               /\ \A i, j \in 1..n : i < j => last.out[i].score >= last.out[j].score
               /\ results = last.pre
               /\ runobjs = last.preobjs

\* the view of a collection with a run record whose best and worst scores
\* differ
C17_Witness ==
    /\ last.op = "posterior"
    /\ Len(LastNow.runs) >= 1
    /\ Len(last.out) >= 2
    /\ last.out[1].score > last.out[Len(last.out)].score

====
